---- MODULE Spec2Model ----
(***************************************************************************)
(* A model of pylox: the scanner (scanner.py), the expression parser      *)
(* (parser.py), the persistent environment (environment.py) and the        *)
(* tree-walking interpreter (interpreter.py).                              *)
(*                                                                         *)
(* Spec      the interpreter: statements and expressions are run against   *)
(*           an environment chain drawn from a bounded set.                *)
(* ScanSpec  the scanner: generate_tokens is stepped over a source string  *)
(*           drawn from a bounded set; FairScanSpec adds the fairness of   *)
(*           the (single-threaded, run-to-completion) scanning loop.       *)
(* ParseSpec next_expression is applied to a token list drawn from a       *)
(*           bounded set.                                                  *)
(* ForSpec   the rewriting of a for statement into a while loop.           *)
(* EvalSpec  evaluate is applied once to an operator expression over       *)
(*           literal operands of every value type.                         *)
(***************************************************************************)
EXTENDS Integers, Sequences, FiniteSets, TLC

VARIABLES
    env,        \* interpreter: the current Environment (chain of frames, innermost first)
    out,        \* interpreter: the lines printed so far
    prevEnv,    \* interpreter: the environment the last operation was given
    lastOp,     \* interpreter: the last operation run (statement or expression)
    lastRes,    \* interpreter: what the last operation returned or raised
    code,       \* scanner: the source string (a sequence of characters)
    i,          \* scanner: generate_tokens' cursor `i`
    line,       \* scanner: generate_tokens' `line`
    tokens,     \* scanner: the tokens yielded so far (before filtering)
    scanState,  \* scanner: "idle" | "scanning" | "done" | "error"
    scanResult, \* scanner: the list returned by scan (when done)
    errLine,    \* scanner: the line carried by the ScannerError (when error)
    ptokens,    \* parser: the token list handed to the parser
    forClauses, \* parser: the parsed clauses and body of a for statement
    parseRes,   \* parser: what the parser returned or raised
    objs,       \* heap: the Environment objects created so far, by reference
    dicts,      \* heap: the `values` dicts created so far, by reference
    cur,        \* heap: the reference the caller holds
    heapOp      \* heap: the last Environment method called and what it returned

vars == <<env, out, prevEnv, lastOp, lastRes,
          code, i, line, tokens, scanState, scanResult, errLine,
          ptokens, forClauses, parseRes,
          objs, dicts, cur, heapOp>>

interpVars == <<env, out, prevEnv, lastOp, lastRes>>
scanVars == <<code, i, line, tokens, scanState, scanResult, errLine>>
parseVars == <<ptokens, forClauses, parseRes>>
heapVars == <<objs, dicts, cur, heapOp>>

(***************************************************************************)
(* Bounds                                                                  *)
(***************************************************************************)
MaxDepth == 2   \* frames in an initial environment chain
MaxLen == 4     \* characters in a source string
MaxTokens == 5  \* tokens in a token list handed to the parser
MaxObjects == 5 \* Environment objects on the heap

(***************************************************************************)
(* Lox values.  Python's None is Nil; Absent marks a key a dict lacks.     *)
(***************************************************************************)
Nil == [t |-> "nil", v |-> 0]
Absent == [t |-> "absent", v |-> 0]
Num(n) == [t |-> "num", v |-> n]
Bool(b) == [t |-> "bool", v |-> IF b THEN 1 ELSE 0]
Str(chars) == [t |-> "str", v |-> chars]
List(items) == [t |-> "list", v |-> items]
\* a LoxCallable of the given arity whose call returns the arguments it is
\* handed, as a list, and the environment it is handed
Callable(arity) == [t |-> "callable", v |-> arity]

Names == {"x", "y"}
InitValues == {Nil, Num(0)}          \* values bound in an initial environment
LitValues == {Nil, Num(1), Num(2)}   \* values of the literals in the programs
Values == InitValues \cup LitValues

(***************************************************************************)
(* environment.py                                                          *)
(***************************************************************************)
\* A frame's `values` dict: every name maps to its value, or to Absent.
Frames == [Names -> InitValues \cup {Absent}]
EmptyFrame == [n \in Names |-> Absent]

\* Environment(enclosing=env): a fresh empty frame chained to env.
Environment(enclosing) == <<EmptyFrame>> \o enclosing

\* dict.get(key): the value, or None when the key is missing.
dict_get(values, key) == IF values[key] = Absent THEN Nil ELSE values[key]

get_copy_with(self, key, value) ==
    <<[Head(self) EXCEPT ![key] = value]>> \o Tail(self)

Environment_define(self, name, value) == get_copy_with(self, name, value)

Returned(value, e) == [raised |-> "none", message |-> "", value |-> value, env |-> e]
Raised(kind, message) == [raised |-> kind, message |-> message, value |-> Nil, env |-> <<>>]
ERROR_UNDEFINED == "Undefined variable"

RECURSIVE Environment_get(_, _)
Environment_get(self, name) ==
    LET value == dict_get(Head(self), name)
    IN  IF value = Nil /\ Len(self) > 1
        THEN Environment_get(Tail(self), name)
        ELSE IF value = Nil
             THEN Raised("RuntimeError", ERROR_UNDEFINED)
             ELSE Returned(value, self)

\* Mutant: the enclosing chain is tried first, so an outer binding wins over
\* the frame's own.
RECURSIVE Environment_assign_outer_first(_, _, _)
Environment_assign_outer_first(self, name, value) ==
    LET r == IF Len(self) > 1
             THEN Environment_assign_outer_first(Tail(self), name, value)
             ELSE Raised("RuntimeError", ERROR_UNDEFINED)
    IN  IF r.raised = "none" THEN Returned(Nil, <<Head(self)>> \o r.env)
        ELSE IF Head(self)[name] # Absent
             THEN Returned(Nil, get_copy_with(self, name, value))
             ELSE r

\* Mutant: assign behaves as define, binding the name in the receiver frame.
Environment_assign_as_define(self, name, value) ==
    Returned(Nil, get_copy_with(self, name, value))

RECURSIVE Environment_assign(_, _, _)
Environment_assign(self, name, value) ==
    IF Head(self)[name] # Absent
    THEN Returned(Nil, get_copy_with(self, name, value))
    ELSE IF Len(self) > 1
         THEN LET r == Environment_assign(Tail(self), name, value)
              IN  IF r.raised # "none" THEN r
                  ELSE Returned(Nil, <<Head(self)>> \o r.env)
         ELSE Raised("RuntimeError", ERROR_UNDEFINED)

(***************************************************************************)
(* expr.py / stmt.py: the AST nodes, as records tagged with their class.   *)
(***************************************************************************)
Literal(value) == [kind |-> "Literal", value |-> value]
Grouping(expression) == [kind |-> "Grouping", expression |-> expression]
Unary(operator, right) == [kind |-> "Unary", operator |-> operator, right |-> right]
Binary(left, operator, right) ==
    [kind |-> "Binary", left |-> left, operator |-> operator, right |-> right]
Call(callee, arguments) == [kind |-> "Call", callee |-> callee, arguments |-> arguments]
Logical(left, operator, right) ==
    [kind |-> "Logical", left |-> left, operator |-> operator, right |-> right]
Variable(name) == [kind |-> "Variable", name |-> name]
Assign(name, value) == [kind |-> "Assign", name |-> name, value |-> value]

None == [kind |-> "None"]   \* an absent initialiser or else-branch
PrintStmt(expression) == [kind |-> "PrintStmt", expression |-> expression]
ExpressionStmt(expression) == [kind |-> "Expression", expression |-> expression]
VarStmt(name, initialiser) == [kind |-> "Var", name |-> name, initialiser |-> initialiser]
BlockStmt(statements) == [kind |-> "Block", statements |-> statements]
IfStmt(condition, then_branch, else_branch) ==
    [kind |-> "IfStmt", condition |-> condition,
     then_branch |-> then_branch, else_branch |-> else_branch]
WhileStmt(condition, body) == [kind |-> "While", condition |-> condition, body |-> body]

(***************************************************************************)
(* interpreter.py: expressions                                             *)
(***************************************************************************)
ERROR_FLOAT_OPERANDS == "Operands must be numbers."
ERROR_ADD_OPERANDS == "Operands must be two numbers or two strings"

\* Mutant: the host language's truthiness, where 0 and "" are false too.
is_truthy_of_host(value) ==
    IF value = Nil THEN FALSE
    ELSE IF value.t = "bool" THEN value.v = 1
    ELSE IF value.t = "num" THEN value.v # 0
    ELSE IF value.t = "str" THEN value.v # <<>>
    ELSE TRUE

is_truthy(value) ==
    IF value = Nil THEN FALSE
    ELSE IF value.t = "bool" THEN value.v = 1
    ELSE TRUE

\* Python's ==: a bool is an int, so True == 1.0; a str equals only a str.
is_equal(left, right) ==
    IF left = Nil /\ right = Nil THEN TRUE
    ELSE IF left = Nil THEN FALSE
    ELSE IF left.t \in {"bool", "num"} /\ right.t \in {"bool", "num"}
         THEN left.v = right.v
         ELSE left.t = right.t /\ left.v = right.v

BINARY_NUMERIC_OPERATIONS ==
    {"GREATER", "GREATER_EQUAL", "LESS", "LESS_EQUAL", "MINUS", "SLASH", "STAR"}

\* left / right for a divisor other than zero.  The numbers of the model are
\* integral floats; a quotient that is not integral is kept as the fraction.
Quotient(a, b) ==
    LET n == IF b < 0 THEN 0 - a ELSE a
        d == IF b < 0 THEN 0 - b ELSE b
    IN  IF n % d = 0 THEN Num(n \div d) ELSE [t |-> "num", v |-> n, over |-> d]

evaluate_binary_numeric(left, operator, right) ==
    IF left.t # "num" \/ right.t # "num"
    THEN Raised("RuntimeError", ERROR_FLOAT_OPERANDS)
    ELSE IF operator = "SLASH"
    THEN IF right.v = 0
         THEN Raised("ZeroDivisionError", "float division by zero")
         ELSE Returned(Quotient(left.v, right.v), <<>>)
    ELSE Returned(CASE operator = "GREATER" -> Bool(left.v > right.v)
                    [] operator = "GREATER_EQUAL" -> Bool(left.v >= right.v)
                    [] operator = "LESS" -> Bool(left.v < right.v)
                    [] operator = "LESS_EQUAL" -> Bool(left.v <= right.v)
                    [] operator = "MINUS" -> Num(left.v - right.v)
                    [] operator = "STAR" -> Num(left.v * right.v), <<>>)

add(left, operator, right) ==
    IF left.t = "num" /\ right.t = "num"
    THEN Returned(Num(left.v + right.v), <<>>)
    ELSE IF left.t = "str" /\ right.t = "str"
         THEN Returned([t |-> "str", v |-> left.v \o right.v], <<>>)
         ELSE Raised("RuntimeError", ERROR_ADD_OPERANDS)

RECURSIVE evaluate(_, _)

evaluate_literal(expression, e) == Returned(expression.value, e)

evaluate_grouping(expression, e) == evaluate(expression.expression, e)

\* Mutant: a read returns the chain from the frame that binds the name.
RECURSIVE evaluate_variable_from_binding_frame(_, _)
evaluate_variable_from_binding_frame(expression, e) ==
    LET result == Environment_get(e, expression.name)
    IN  IF result.raised # "none" THEN result
        ELSE IF Head(e)[expression.name] = Absent /\ Len(e) > 1
        THEN evaluate_variable_from_binding_frame(expression, Tail(e))
        ELSE Returned(result.value, e)

evaluate_variable(expression, e) ==
    LET result == Environment_get(e, expression.name)
    IN  IF result.raised # "none" THEN result ELSE Returned(result.value, e)

evaluate_assign(expression, e) ==
    LET r == evaluate(expression.value, e)
    IN  IF r.raised # "none" THEN r
        ELSE Environment_assign(r.env, expression.name, r.value)

evaluate_unary(expression, e) ==
    LET r == evaluate(expression.right, e)
    IN  IF r.raised # "none" THEN r
        ELSE CASE expression.operator = "MINUS" ->
                    IF r.value.t = "num" THEN Returned(Num(0 - r.value.v), r.env)
                    ELSE Raised("RuntimeError", "Operand must be a number.")
               [] expression.operator = "BANG" ->
                    Returned(Bool(~is_truthy(r.value)), r.env)
               [] OTHER -> Raised("RuntimeError", "Invalid operator.")

evaluate_binary(expression, e) ==
    LET l == evaluate(expression.left, e)
    IN  IF l.raised # "none" THEN l
        ELSE LET r == evaluate(expression.right, l.env)
                 operator == expression.operator
             IN  IF r.raised # "none" THEN r
                 ELSE CASE operator \in BINARY_NUMERIC_OPERATIONS ->
                             LET v == evaluate_binary_numeric(l.value, operator, r.value)
                             IN  IF v.raised # "none" THEN v ELSE Returned(v.value, r.env)
                        [] operator = "PLUS" ->
                             LET v == add(l.value, operator, r.value)
                             IN  IF v.raised # "none" THEN v ELSE Returned(v.value, r.env)
                        [] operator = "BANG_EQUAL" ->
                             Returned(Bool(~is_equal(l.value, r.value)), r.env)
                        [] operator = "EQUAL_EQUAL" ->
                             Returned(Bool(is_equal(l.value, r.value)), r.env)
                        [] OTHER -> Raised("RuntimeError", "Unexpected operator.")

\* Mutant: both operands are evaluated before the left one is tested.
evaluate_logical_or_eager(expression, e) ==
    LET l == evaluate(expression.left, e)
    IN  IF l.raised # "none" THEN l
        ELSE LET r == evaluate(expression.right, l.env)
             IN  IF r.raised # "none" THEN r
                 ELSE IF is_truthy(l.value) THEN Returned(l.value, r.env)
                 ELSE r

evaluate_logical_or(expression, e) ==
    LET l == evaluate(expression.left, e)
    IN  IF l.raised # "none" THEN l
        ELSE IF is_truthy(l.value) THEN l
        ELSE evaluate(expression.right, l.env)

evaluate_logical_and(expression, e) ==
    LET l == evaluate(expression.left, e)
    IN  IF l.raised # "none" THEN l
        ELSE IF ~is_truthy(l.value) THEN l
        ELSE evaluate(expression.right, l.env)

evaluate_logical(expression, e) ==
    IF expression.operator = "OR" THEN evaluate_logical_or(expression, e)
    ELSE IF expression.operator = "AND" THEN evaluate_logical_and(expression, e)
    ELSE Raised("RuntimeError", "Unrecognised logical operator.")

LoxCallable_arity(callee) == callee.v
LoxCallable_call(callee, arguments, e) == Returned(List(arguments), e)

\* Mutant: every argument is evaluated in the environment the callee returned.
RECURSIVE evaluate_arguments_unthreaded(_, _)
evaluate_arguments_unthreaded(arguments, e) ==
    IF arguments = <<>> THEN Returned(List(<<>>), e)
    ELSE LET a == evaluate(Head(arguments), e)
         IN  IF a.raised # "none" THEN a
             ELSE LET rest == evaluate_arguments_unthreaded(Tail(arguments), e)
                  IN  IF rest.raised # "none" THEN rest
                      ELSE Returned(List(<<a.value>> \o rest.value.v), rest.env)

\* the loop over expression.arguments: the values, in order, and the
\* environment after the last argument
RECURSIVE evaluate_arguments(_, _)
evaluate_arguments(arguments, e) ==
    IF arguments = <<>> THEN Returned(List(<<>>), e)
    ELSE LET a == evaluate(Head(arguments), e)
         IN  IF a.raised # "none" THEN a
             ELSE LET rest == evaluate_arguments(Tail(arguments), a.env)
                  IN  IF rest.raised # "none" THEN rest
                      ELSE Returned(List(<<a.value>> \o rest.value.v), rest.env)

evaluate_call(expression, e) ==
    LET c == evaluate(expression.callee, e)
    IN  IF c.raised # "none" THEN c
        ELSE IF c.value.t # "callable"
        THEN Raised("RuntimeError", "Can only call functions and classes")
        ELSE IF Len(expression.arguments) # LoxCallable_arity(c.value)
        THEN Raised("RuntimeError",
                    "Expected " \o ToString(LoxCallable_arity(c.value))
                        \o " arguments but received "
                        \o ToString(Len(expression.arguments)) \o ".")
        ELSE LET a == evaluate_arguments(expression.arguments, c.env)
             IN  IF a.raised # "none" THEN a
                 ELSE LoxCallable_call(c.value, a.value.v, a.env)

\* Any other node (the parser's Empty sentinel included) falls through to
\* NotImplementedError.
evaluate(expression, e) ==
    CASE expression.kind = "Literal" -> evaluate_literal(expression, e)
      [] expression.kind = "Grouping" -> evaluate_grouping(expression, e)
      [] expression.kind = "Unary" -> evaluate_unary(expression, e)
      [] expression.kind = "Binary" -> evaluate_binary(expression, e)
      [] expression.kind = "Variable" -> evaluate_variable(expression, e)
      [] expression.kind = "Assign" -> evaluate_assign(expression, e)
      [] expression.kind = "Logical" -> evaluate_logical(expression, e)
      [] expression.kind = "Call" -> evaluate_call(expression, e)
      [] OTHER -> Raised("NotImplementedError", "")

(***************************************************************************)
(* interpreter.py: statements.  A statement result carries the output      *)
(* printed so far: what was printed before an error stays printed.         *)
(***************************************************************************)
MaxIter == 3    \* iterations a while loop is followed for

Completed(e, o) == [raised |-> "none", message |-> "", env |-> e, out |-> o]
Aborted(r, o) == [raised |-> r.raised, message |-> r.message, env |-> <<>>, out |-> o]

\* str(float) for the integral floats of the model: 1.0 prints as "1.0".
stringify(item) ==
    IF item.t = "bool" /\ item.v = 1 THEN "true"
    ELSE IF item.t = "bool" /\ item.v = 0 THEN "false"
    ELSE IF item = Nil THEN "nil"
    ELSE IF item.t = "num" THEN ToString(item.v) \o ".0"
    ELSE item.v

RECURSIVE interpret_statement(_, _, _)
RECURSIVE interpret_statements(_, _, _)
RECURSIVE while_loop(_, _, _, _)

interpret_var_statement(statement, e, o) ==
    IF statement.initialiser = None
    THEN Completed(Environment_define(e, statement.name, Nil), o)
    ELSE LET r == evaluate(statement.initialiser, e)
         IN  IF r.raised # "none" THEN Aborted(r, o)
             ELSE Completed(Environment_define(r.env, statement.name, r.value), o)

\* Mutant: the block runs in the caller's frame instead of a child frame.
interpret_block_statement_no_frame(statement, e, o) ==
    interpret_statements(statement.statements, e, o)

\* Mutant: the block returns its own frame instead of the enclosing one.
interpret_block_statement_keeps_frame(statement, e, o) ==
    interpret_statements(statement.statements, Environment(e), o)

interpret_block_statement(statement, e, o) ==
    LET inner_env == Environment(e)
        r == interpret_statements(statement.statements, inner_env, o)
    IN  IF r.raised # "none" THEN r
        ELSE IF Len(r.env) < 2
             THEN Aborted(Raised("AssertionError", ""), r.out)
             ELSE Completed(Tail(r.env), r.out)

interpret_if_statement(statement, e, o) ==
    LET c == evaluate(statement.condition, e)
    IN  IF c.raised # "none" THEN Aborted(c, o)
        ELSE IF is_truthy(c.value)
             THEN interpret_statement(statement.then_branch, c.env, o)
        ELSE IF statement.else_branch # None
             THEN interpret_statement(statement.else_branch, c.env, o)
        ELSE Completed(c.env, o)

\* Mutant: every turn evaluates the condition in the environment the loop
\* was entered with.
while_loop_stale_env(statement, e, o, fuel) ==
    LET c == evaluate(statement.condition, e)
    IN  IF c.raised # "none" THEN Aborted(c, o)
        ELSE IF ~is_truthy(c.value) THEN Completed(c.env, o)
        ELSE IF fuel = 0 THEN Aborted(Raised("Running", ""), o)
        ELSE LET b == interpret_statement(statement.body, c.env, o)
             IN  IF b.raised # "none" THEN b
                 ELSE while_loop(statement, e, b.out, fuel - 1)

\* One turn of `while is_truthy(condition)`: the condition is evaluated in
\* the environment the previous body execution returned.
while_loop(statement, e, o, fuel) ==
    LET c == evaluate(statement.condition, e)
    IN  IF c.raised # "none" THEN Aborted(c, o)
        ELSE IF ~is_truthy(c.value) THEN Completed(c.env, o)
        ELSE IF fuel = 0 THEN Aborted(Raised("Running", ""), o)
        ELSE LET b == interpret_statement(statement.body, c.env, o)
             IN  IF b.raised # "none" THEN b
                 ELSE while_loop(statement, b.env, b.out, fuel - 1)

interpret_while_statement(statement, e, o) == while_loop(statement, e, o, MaxIter)

interpret_statement(statement, e, o) ==
    CASE statement.kind = "PrintStmt" ->
             LET r == evaluate(statement.expression, e)
             IN  IF r.raised # "none" THEN Aborted(r, o)
                 ELSE Completed(r.env, Append(o, stringify(r.value)))
      [] statement.kind = "Expression" ->
             LET r == evaluate(statement.expression, e)
             IN  IF r.raised # "none" THEN Aborted(r, o) ELSE Completed(r.env, o)
      [] statement.kind = "Var" -> interpret_var_statement(statement, e, o)
      [] statement.kind = "Block" -> interpret_block_statement(statement, e, o)
      [] statement.kind = "IfStmt" -> interpret_if_statement(statement, e, o)
      [] statement.kind = "While" -> interpret_while_statement(statement, e, o)
      [] OTHER -> Aborted(Raised("NotImplementedError", "not yet implemented"), o)

\* Mutant: a statement that raises is skipped and the rest still runs.
interpret_statements_resuming(statements, e, o) ==
    IF statements = <<>> THEN Completed(e, o)
    ELSE LET r == interpret_statement(Head(statements), e, o)
         IN  IF r.raised # "none" THEN interpret_statements(Tail(statements), e, r.out)
             ELSE interpret_statements(Tail(statements), r.env, r.out)

interpret_statements(statements, e, o) ==
    IF statements = <<>> THEN Completed(e, o)
    ELSE LET r == interpret_statement(Head(statements), e, o)
         IN  IF r.raised # "none" THEN r
             ELSE interpret_statements(Tail(statements), r.env, r.out)

interpret(statements, e, o) == interpret_statements(statements, e, o)

(***************************************************************************)
(* The interpreter as a state machine: `interpret` is handed a program     *)
(* once, `evaluate` may be called on the environment at any time.          *)
(***************************************************************************)
\* Environment chains of 1..MaxDepth frames, innermost first.
Chains == UNION {[1..d -> Frames] : d \in 1..MaxDepth}

SimpleExprs == {Literal(v) : v \in LitValues} \cup {Variable(n) : n \in Names}
\* reads under every kind of operator node
ReadingExprs ==
    { Binary(Variable("x"), "PLUS", Grouping(Unary("MINUS", Variable("y")))),
      Logical(Variable("x"), "AND", Unary("BANG", Variable("y"))) }
Expressions ==
    SimpleExprs \cup {Assign(n, Literal(v)) : n \in Names, v \in LitValues}
        \cup ReadingExprs

Declarations == {VarStmt(n, None) : n \in Names}
                \cup {VarStmt(n, Literal(v)) : n \in Names, v \in {Nil, Num(1)}}
Reads == {PrintStmt(Variable(n)) : n \in Names}
Assignments == {ExpressionStmt(Assign(n, Literal(v))) : n \in Names, v \in {Nil, Num(2)}}
SimpleStmts == Declarations \cup Reads \cup Assignments

BlockBodies == {<<s>> : s \in SimpleStmts}
               \cup {<<s1, s2>> : s1 \in SimpleStmts, s2 \in SimpleStmts}
               \cup {<<d, BlockStmt(<<a>>)>> : d \in Declarations, a \in Assignments}
\* statement lists of three statements, each of which prints, binds or raises
ListStmts ==
    { PrintStmt(Literal(Num(1))), PrintStmt(Variable("x")), VarStmt("y", Literal(Num(2))) }
StatementLists == { <<s1, s2, s3>> : s1 \in ListStmts, s2 \in ListStmts, s3 \in ListStmts }
\* `while (x < n) x = x + 1`, and the same with a body that prints x first
Increment == ExpressionStmt(Assign("x", Binary(Variable("x"), "PLUS", Literal(Num(1)))))
WhileBodies == { Increment, BlockStmt(<<PrintStmt(Variable("x")), Increment>>) }
WhileLoops ==
    { <<WhileStmt(Binary(Variable("x"), "LESS", Literal(Num(n))), body)>> :
        n \in 0..MaxIter, body \in WhileBodies }
Programs ==
    {<<s>> : s \in SimpleStmts} \cup {<<BlockStmt(b)>> : b \in BlockBodies}
        \cup StatementLists \cup WhileLoops

NoOp == [op |-> "none", arg |-> <<>>]
NoRes == [raised |-> "none", message |-> "", value |-> Nil, env |-> <<>>]

InterpInit ==
    /\ env \in Chains
    /\ out = <<>>
    /\ prevEnv = env
    /\ lastOp = NoOp
    /\ lastRes = NoRes

\* interpret(statements, env): on an error no environment is returned and
\* the caller keeps the one it had.
Interpret(statements) ==
    /\ lastOp = NoOp
    /\ LET r == interpret(statements, env, <<>>)
       IN  /\ env' = IF r.raised = "none" THEN r.env ELSE env
           /\ out' = r.out
           /\ lastRes' = [raised |-> r.raised, message |-> r.message,
                          value |-> Nil, env |-> r.env]
    /\ prevEnv' = env
    /\ lastOp' = [op |-> "interpret", arg |-> statements]

\* evaluate(expression, env)
Evaluate(expression) ==
    /\ LET r == evaluate(expression, env)
       IN  /\ env' = IF r.raised = "none" THEN r.env ELSE env
           /\ lastRes' = r
    /\ prevEnv' = env
    /\ lastOp' = [op |-> "evaluate", arg |-> expression]
    /\ UNCHANGED out

ScanIdle ==
    /\ code = <<>>
    /\ i = 0
    /\ line = 1
    /\ tokens = <<>>
    /\ scanState = "idle"
    /\ scanResult = <<>>
    /\ errLine = 0

NoParse ==
    [raised |-> "idle", message |-> "", token |-> [token_type |-> "none", value |-> Nil],
     node |-> None, length |-> 0]

NoClauses == [initialiser |-> None, condition |-> None, increment |-> None, body |-> None]

ParseIdle ==
    /\ ptokens = <<>>
    /\ forClauses = NoClauses
    /\ parseRes = NoParse

NoHeapOp == [op |-> "none", self |-> 0, name |-> "", value |-> Nil, raised |-> FALSE, ref |-> 0]

HeapIdle ==
    /\ objs = <<>>
    /\ dicts = <<>>
    /\ cur = 0
    /\ heapOp = NoHeapOp

Init == InterpInit /\ ScanIdle /\ ParseIdle /\ HeapIdle

Next ==
    \/ \E p \in Programs : Interpret(p) /\ UNCHANGED <<scanVars, parseVars, heapVars>>
    \/ \E e \in Expressions : Evaluate(e) /\ UNCHANGED <<scanVars, parseVars, heapVars>>

Spec == Init /\ [][Next]_vars

(***************************************************************************)
(* Properties of the interpreter and the environment                       *)
(***************************************************************************)
Ran(op) == lastOp.op = op
RanBlock == Ran("interpret") /\ Len(lastOp.arg) = 1 /\ lastOp.arg[1].kind = "Block"
RanBody == lastOp.arg[1].statements

\* name is bound (to any value, nil included) in some frame of e
Binds(e, name) == \E k \in 1..Len(e) : e[k][name] # Absent
\* the innermost frame of e that binds name
Innermost(e, name) ==
    CHOOSE k \in 1..Len(e) : e[k][name] # Absent /\ \A j \in 1..(k - 1) : e[j][name] = Absent

C1Block ==
    BlockStmt(<<VarStmt("x", Literal(Num(1))), ExpressionStmt(Assign("x", Literal(Num(2))))>>)
C1Case == RanBlock /\ lastOp.arg[1] = C1Block /\ prevEnv[1]["x"] = Num(0)

\* C1 (as stated): with the outer x pre-declared as 0, after the block
\* { var x = 1; x = 2; } reading x in the returned environment yields 2.
C1_AssignPiercesShadowingBlock ==
    C1Case => lastRes.raised = "none" /\ Environment_get(env, "x").value = Num(2)

\* C1 (amended): with the outer x pre-declared as 0, the block
\* { var x = 1; x = 2; } completes and reading x in the returned environment
\* yields 0: the assignment updates the x the block itself declared, and the
\* returned environment is the one the block was given.
C1_ShadowedAssignStaysInBlock ==
    C1Case => /\ lastRes.raised = "none"
              /\ Environment_get(env, "x").raised = "none"
              /\ Environment_get(env, "x").value = Num(0)
              /\ env = prevEnv

C1_Witness == C1Case /\ lastRes.raised = "none"

\* C2: after `var n;` is interpreted in any environment, evaluating
\* Variable(n) in the resulting environment returns nil and raises nothing.
C2_UninitialisedVarReadsNil ==
    \A n \in Names :
        (Ran("interpret") /\ lastOp.arg = <<VarStmt(n, None)>>)
            => /\ lastRes.raised = "none"
               /\ evaluate(Variable(n), env).raised = "none"
               /\ evaluate(Variable(n), env).value = Nil

\* C3: Environment.get returns the value bound to the name in the innermost
\* frame that binds it, whatever the value (nil included), and never an
\* outer frame's binding while an inner frame binds the name.
C3_GetReturnsInnermostBinding ==
    (Ran("evaluate") /\ lastOp.arg.kind = "Variable" /\ Binds(prevEnv, lastOp.arg.name))
        => /\ lastRes.raised = "none"
           /\ lastRes.value = prevEnv[Innermost(prevEnv, lastOp.arg.name)][lastOp.arg.name]

\* the block assigns `name = value` (directly or in a nested block), never
\* declares name, and holds nothing else but declarations of other names
AssignsOnly(body, name, value) ==
    LET a == ExpressionStmt(Assign(name, Literal(value)))
    IN  /\ \E k \in 1..Len(body) : body[k] = a \/ body[k] = BlockStmt(<<a>>)
        /\ \A k \in 1..Len(body) :
              /\ body[k].kind \in {"Var", "Expression", "Block"}
              /\ body[k].kind = "Var" => body[k].name # name
              /\ body[k].kind = "Expression" => body[k] = a
              /\ body[k].kind = "Block" => body[k] = BlockStmt(<<a>>)

C4Case(name, value) ==
    RanBlock /\ AssignsOnly(RanBody, name, value) /\ Binds(prevEnv, name)

\* C4: when x is bound in some frame of env (at any depth) and the block
\* does not declare x, a block containing x = v returns env with x bound to
\* v in the frame that bound x before, every other binding of every frame
\* unchanged.
C4_BlockAssignUpdatesBindingFrame ==
    \A name \in Names, value \in LitValues :
        C4Case(name, value)
            => /\ lastRes.raised = "none"
               /\ env = [prevEnv EXCEPT ![Innermost(prevEnv, name)][name] = value]

C4_Witness ==
    /\ C4Case("x", Num(2))
    /\ lastRes.raised = "none"
    /\ Len(prevEnv) = 2 /\ prevEnv[1]["x"] = Absent /\ prevEnv[2]["x"] = Num(0)
    /\ env[2]["x"] = Num(2)

\* the block only declares variables and reads them
DeclaresAndReads(body) ==
    \A k \in 1..Len(body) : body[k].kind \in {"Var", "PrintStmt"}
DeclaredIn(body) == {body[k].name : k \in {j \in 1..Len(body) : body[j].kind = "Var"}}

\* every name the block reads was declared earlier in the block or is bound
\* in the environment the block is given
ReadsAreBound(body, e) ==
    \A k \in 1..Len(body) :
        body[k].kind = "PrintStmt" =>
            \/ Binds(e, body[k].expression.name)
            \/ \E j \in 1..(k - 1) :
                  body[j].kind = "Var" /\ body[j].name = body[k].expression.name

C5Case == RanBlock /\ DeclaresAndReads(RanBody) /\ ReadsAreBound(RanBody, prevEnv)

\* C5: a block that only declares and reads variables returns an
\* environment equal to the one it was given; a name declared in the block
\* is not bound in the result, so reading it afterwards raises the
\* undefined-variable runtime error when no outer frame binds it.
C5_BlockDeclarationsDoNotEscape ==
    C5Case => /\ lastRes.raised = "none"
              /\ env = prevEnv
              /\ \A n \in DeclaredIn(RanBody) :
                    ~Binds(prevEnv, n) =>
                        /\ Environment_get(env, n).raised = "RuntimeError"
                        /\ Environment_get(env, n).message = ERROR_UNDEFINED


(***************************************************************************)
(* tokens.py / scanner.py.  Offsets are 0-based as in the source; a source *)
(* string is a sequence of one-character strings.                          *)
(***************************************************************************)
Token(token_type, lexeme, start, ln, length, n_newlines) ==
    [token_type |-> token_type, lexeme |-> lexeme, start |-> start,
     line |-> ln, length |-> length, n_newlines |-> n_newlines]

Yield(token) == [error |-> FALSE, token |-> token, line |-> 0, message |-> ""]
ScannerError(ln, message) ==
    [error |-> TRUE, token |-> Token("NONE", <<>>, 0, 0, 0, 0), line |-> ln, message |-> message]

\* str.isdigit / str.isidentifier / str.isalnum / str.isspace of one
\* character (all false for the empty string)
Digits == {"0", "1", "2", "3", "4", "5", "6", "7", "8", "9"}
Letters == {"a", "b", "c", "d", "e", "f", "g", "h", "i", "j", "k", "l", "m",
            "n", "o", "p", "q", "r", "s", "t", "u", "v", "w", "x", "y", "z"}
isdigit(char) == char \in Digits
isidentifier(char) == char \in Letters \cup {"_"}
isalnum(char) == char \in Letters \cup Digits
isspace(char) == char \in {" ", "\n", "\t", "\r"}

\* code[offset], or "" past the end
scanner_get(source, offset) ==
    IF offset < Len(source) THEN source[offset + 1] ELSE ""

\* code[a:b]
Slice(source, a, b) == SubSeq(source, a + 1, b)

\* code.find("\n", offset)
find_newline(source, offset) ==
    IF \E k \in offset..(Len(source) - 1) : source[k + 1] = "\n"
    THEN CHOOSE k \in offset..(Len(source) - 1) :
            source[k + 1] = "\n" /\ \A j \in offset..(k - 1) : source[j + 1] # "\n"
    ELSE -1

single_letter_tokens ==
    [c \in {"(", ")", "{", "}", ",", ".", "-", "+", ";", "*"} |->
        CASE c = "(" -> "LEFT_PAREN" [] c = ")" -> "RIGHT_PAREN"
          [] c = "{" -> "LEFT_BRACE" [] c = "}" -> "RIGHT_BRACE"
          [] c = "," -> "COMMA" [] c = "." -> "DOT" [] c = "-" -> "MINUS"
          [] c = "+" -> "PLUS" [] c = ";" -> "SEMICOLON" [] c = "*" -> "STAR"]

single_letter_token(source, offset, ln) ==
    Yield(Token(single_letter_tokens[source[offset + 1]], <<source[offset + 1]>>, offset, ln, 1, 0))

\* dyad_tokens: the type with a following "=", and the <default>
dyad_tokens ==
    [c \in {"!", "=", "<", ">"} |->
        CASE c = "!" -> [eq |-> "BANG_EQUAL", default |-> "BANG"]
          [] c = "=" -> [eq |-> "EQUAL_EQUAL", default |-> "EQUAL"]
          [] c = "<" -> [eq |-> "LESS_EQUAL", default |-> "LESS"]
          [] c = ">" -> [eq |-> "GREATER_EQUAL", default |-> "GREATER"]]

\* Mutant: the two-character form is taken without looking at the next
\* character.
dyad_token_no_lookahead(source, offset, ln) ==
    Yield(Token(dyad_tokens[source[offset + 1]].eq,
                <<source[offset + 1], scanner_get(source, offset + 1)>>, offset, ln, 2, 0))

dyad_token(source, offset, ln) ==
    LET char == source[offset + 1]
        options == dyad_tokens[char]
        next_char == scanner_get(source, offset + 1)
    IN  IF next_char = "="
        THEN Yield(Token(options.eq, <<char, next_char>>, offset, ln, 2, 0))
        ELSE Yield(Token(options.default, <<char>>, offset, ln, 1, 0))

\* Mutant: a comment that runs to the end of the input counts a line end
\* that is not there.
slash_or_comment_token_past_end(source, offset, ln) ==
    LET next_character == scanner_get(source, offset + 1)
        next_newline == find_newline(source, offset)
    IN  IF next_character # "/"
        THEN Yield(Token("SLASH", <<"/">>, offset, ln, 1, 0))
        ELSE IF next_newline = -1
             THEN Yield(Token("COMMENT", Slice(source, offset, Len(source)), offset, ln,
                              Len(source) - offset + 1, 0))
             ELSE Yield(Token("COMMENT", Slice(source, offset, next_newline), offset, ln,
                              next_newline - offset, 0))

slash_or_comment_token(source, offset, ln) ==
    LET next_character == scanner_get(source, offset + 1)
        next_newline == find_newline(source, offset)
    IN  IF next_character # "/"
        THEN Yield(Token("SLASH", <<"/">>, offset, ln, 1, 0))
        ELSE IF next_newline = -1
             THEN Yield(Token("COMMENT", Slice(source, offset, Len(source)), offset, ln,
                              Len(source) - offset, 0))
             ELSE Yield(Token("COMMENT", Slice(source, offset, next_newline), offset, ln,
                              next_newline - offset, 0))

\* string_token's loop `while char != '"'`, entered with i and char set:
\* the character at the new i is tested for "\n", then for end of file.
RECURSIVE string_loop(_, _, _, _)
string_loop(source, k, char, n_newlines) ==
    IF char = "\""
    THEN [error |-> FALSE, i |-> k, n_newlines |-> n_newlines]
    ELSE LET k2 == k + 1
             char2 == scanner_get(source, k2)
             n2 == IF char2 = "\n" THEN n_newlines + 1 ELSE n_newlines
         IN  IF char2 = ""
             THEN [error |-> TRUE, i |-> k2, n_newlines |-> n2]
             ELSE string_loop(source, k2, char2, n2)

\* Mutant: the end of the input closes an open string.
string_token_closed_by_eof(source, offset, ln) ==
    LET r == string_loop(source, offset + 1, scanner_get(source, offset + 1), 0)
        last == IF r.error THEN Len(source) ELSE r.i
        value == Slice(source, offset + 1, last)
    IN  Yield(Token("STRING", value, offset, ln,
                    IF r.error THEN Len(value) + 1 ELSE Len(value) + 2, r.n_newlines))

string_token(source, offset, ln) ==
    LET r == string_loop(source, offset + 1, scanner_get(source, offset + 1), 0)
        value == Slice(source, offset + 1, r.i)
    IN  IF r.error
        THEN ScannerError(ln, "Error: Unterminated string")
        ELSE Yield(Token("STRING", value, offset, ln, Len(value) + 2, r.n_newlines))

\* `while char.isdigit(): i += 1`
RECURSIVE digits_end(_, _)
digits_end(source, k) ==
    IF isdigit(scanner_get(source, k)) THEN digits_end(source, k + 1) ELSE k

number_token(source, offset, ln) ==
    LET k1 == digits_end(source, offset + 1)
        char == scanner_get(source, k1)
        next_char == scanner_get(source, k1 + 1)
        k2 == IF char = "." /\ isdigit(next_char) THEN digits_end(source, k1 + 2) ELSE k1
    IN  Yield(Token("NUMBER", Slice(source, offset, k2), offset, ln, k2 - offset, 0))

KEYWORDS ==
    { <<<<"a", "n", "d">>, "AND">>, <<<<"c", "l", "a", "s", "s">>, "CLASS">>,
      <<<<"e", "l", "s", "e">>, "ELSE">>, <<<<"f", "a", "l", "s", "e">>, "FALSE">>,
      <<<<"f", "o", "r">>, "FOR">>, <<<<"f", "u", "n">>, "FUN">>,
      <<<<"i", "f">>, "IF">>, <<<<"n", "i", "l">>, "NIL">>, <<<<"o", "r">>, "OR">>,
      <<<<"p", "r", "i", "n", "t">>, "PRINT">>,
      <<<<"r", "e", "t", "u", "r", "n">>, "RETURN">>,
      <<<<"s", "u", "p", "e", "r">>, "SUPER">>, <<<<"t", "h", "i", "s">>, "THIS">>,
      <<<<"t", "r", "u", "e">>, "TRUE">>, <<<<"v", "a", "r">>, "VAR">>,
      <<<<"w", "h", "i", "l", "e">>, "WHILE">> }

\* `while char.isidentifier() or char.isalnum(): i += 1`
RECURSIVE identifier_end(_, _)
identifier_end(source, k) ==
    IF isidentifier(scanner_get(source, k)) \/ isalnum(scanner_get(source, k))
    THEN identifier_end(source, k + 1) ELSE k

keyword_or_identifier_token(source, offset, ln) ==
    LET k == identifier_end(source, offset + 1)
        lexeme == Slice(source, offset, k)
    IN  IF \E kw \in KEYWORDS : kw[1] = lexeme
        THEN Yield(Token((CHOOSE kw \in KEYWORDS : kw[1] = lexeme)[2], lexeme, offset, ln,
                         k - offset, 0))
        ELSE Yield(Token("IDENTIFIER", lexeme, offset, ln, k - offset, 0))

\* whitespace_token's loop: each whitespace character is tested for "\n"
\* before the cursor moves past it.
RECURSIVE whitespace_loop(_, _, _)
whitespace_loop(source, k, n_newlines) ==
    LET char == scanner_get(source, k)
    IN  IF isspace(char)
        THEN whitespace_loop(source, k + 1, IF char = "\n" THEN n_newlines + 1 ELSE n_newlines)
        ELSE [i |-> k, n_newlines |-> n_newlines]

whitespace_token(source, offset, ln) ==
    LET r == whitespace_loop(source, offset, 0)
    IN  Yield(Token("WHITESPACE", Slice(source, offset, r.i), offset, ln,
                    r.i - offset, r.n_newlines))

get_next_token(source, offset, ln) ==
    LET char == source[offset + 1]
    IN  IF char \in DOMAIN single_letter_tokens THEN single_letter_token(source, offset, ln)
        ELSE IF char \in DOMAIN dyad_tokens THEN dyad_token(source, offset, ln)
        ELSE IF char = "/" THEN slash_or_comment_token(source, offset, ln)
        ELSE IF char = "\"" THEN string_token(source, offset, ln)
        ELSE IF isdigit(char) THEN number_token(source, offset, ln)
        ELSE IF isidentifier(char) THEN keyword_or_identifier_token(source, offset, ln)
        ELSE IF isspace(char) THEN whitespace_token(source, offset, ln)
        ELSE ScannerError(ln, "Unexpected Character")

USELESS_TOKENS == {"WHITESPACE", "COMMENT"}
is_useful_token(t) == t.token_type \notin USELESS_TOKENS

\* Mutant: an end-of-input token is appended to the useful tokens.
scan_with_eof(generated) ==
    Append(SelectSeq(generated, is_useful_token), Token("EOF", <<>>, 0, 0, 0, 0))

\* scan: list(filter(is_useful_token, tokens))
scan(generated) == SelectSeq(generated, is_useful_token)

(***************************************************************************)
(* The scanner as a state machine: one action per turn of generate_tokens' *)
(* loop, and one for the loop's exit, where scan returns the filtered list.*)
(***************************************************************************)
Alphabet == {"\"", "\n", " ", "a", "1", ".", "/", "=", "@"}
Sources == UNION {[1..n -> Alphabet] : n \in 0..MaxLen}

InterpIdle ==
    /\ env = <<EmptyFrame>>
    /\ out = <<>>
    /\ prevEnv = <<EmptyFrame>>
    /\ lastOp = NoOp
    /\ lastRes = NoRes

ScanInit ==
    /\ code \in Sources
    /\ i = 0
    /\ line = 1
    /\ tokens = <<>>
    /\ scanState = "scanning"
    /\ scanResult = <<>>
    /\ errLine = 0
    /\ InterpIdle
    /\ ParseIdle
    /\ HeapIdle

\* `while i < len(code)`: get_next_token, then advance the cursor and line
\* and yield; a ScannerError ends the scan with no list returned.
NextToken ==
    /\ scanState = "scanning"
    /\ i < Len(code)
    /\ LET r == get_next_token(code, i, line)
       IN  IF r.error
           THEN /\ scanState' = "error"
                /\ errLine' = r.line
                /\ UNCHANGED <<i, line, tokens>>
           ELSE /\ i' = i + r.token.length
                /\ line' = line + r.token.n_newlines
                /\ tokens' = Append(tokens, r.token)
                /\ UNCHANGED <<scanState, errLine>>
    /\ UNCHANGED <<code, scanResult>>

\* the loop exits and scan returns the useful tokens
Finish ==
    /\ scanState = "scanning"
    /\ i >= Len(code)
    /\ scanState' = "done"
    /\ scanResult' = scan(tokens)
    /\ UNCHANGED <<code, i, line, tokens, errLine>>

ScanNext ==
    \/ NextToken /\ UNCHANGED <<interpVars, parseVars, heapVars>>
    \/ Finish /\ UNCHANGED <<interpVars, parseVars, heapVars>>

ScanSpec == ScanInit /\ [][ScanNext]_vars

\* generate_tokens runs to completion: the loop is never suspended.
FairScanSpec == ScanSpec /\ WF_vars(ScanNext)

(***************************************************************************)
(* Properties of the scanner                                               *)
(***************************************************************************)
TypesOf(ts) == {ts[k].token_type : k \in 1..Len(ts)}
Useful(ts) == {k \in 1..Len(ts) : ts[k].token_type \notin {"WHITESPACE", "COMMENT"}}

Quoted ==
    /\ Len(code) >= 2
    /\ code[1] = "\"" /\ code[Len(code)] = "\""
    /\ \A k \in 2..(Len(code) - 1) : code[k] # "\""
NewlinesIn(str) == Cardinality({k \in 1..Len(str) : str[k] = "\n"})

\* C7: scanning `"` + s + `"` yields exactly one STRING token whose value is
\* s and whose n_newlines is the number of newlines in s, wherever they are.
C7_StringTokenCountsNewlines ==
    (Quoted /\ scanState # "scanning")
        => /\ scanState = "done"
           /\ Len(tokens) = 1
           /\ tokens[1].token_type = "STRING"
           /\ tokens[1].lexeme = SubSeq(code, 2, Len(code) - 1)
           /\ tokens[1].n_newlines = NewlinesIn(SubSeq(code, 2, Len(code) - 1))

\* C8: the line of every token, and of a ScannerError, is 1 plus the number
\* of newlines in the source before the token's start offset.
C8_LineCountsNewlinesBefore ==
    /\ \A k \in 1..Len(tokens) :
          tokens[k].line = 1 + NewlinesIn(SubSeq(code, 1, tokens[k].start))
    /\ scanState = "error" => errLine = 1 + NewlinesIn(SubSeq(code, 1, i))

\* C9: the lexeme of every token returned by scan is the source substring
\* source[start : start + length], STRING tokens (with their quotes) included.
C9_LexemeIsSourceSpan ==
    scanState = "done"
        => \A k \in 1..Len(scanResult) :
              scanResult[k].lexeme
                  = Slice(code, scanResult[k].start, scanResult[k].start + scanResult[k].length)

\* C10: scan terminates.  Every turn of the loop either moves the cursor
\* forward, never past the end of the source, or raises ScannerError; the
\* loop is left only at the end of the source; and the scan ends with a
\* token list or a ScannerError.
C10_ScanTerminates ==
    /\ [][/\ scanState = "scanning" /\ scanState' = "scanning"
             => i' > i /\ i' <= Len(code) /\ Len(tokens') = Len(tokens) + 1
          /\ scanState' # scanState
             => /\ scanState = "scanning" /\ scanState' \in {"done", "error"}
                /\ scanState' = "done" => i = Len(code)]_vars
    /\ <>(scanState \in {"done", "error"})

C10_Witness ==
    /\ scanState = "done"
    /\ Len(tokens) = MaxLen
    /\ i = Len(code)

\* the characters that start a token category in get_next_token
TokenStarters ==
    {"(", ")", "{", "}", ",", ".", "-", "+", ";", "*", "!", "=", "<", ">", "/", "\""}
        \cup Digits \cup Letters \cup {"_", " ", "\n", "\t", "\r"}
StartsNoToken(k) == k < Len(code) /\ code[k + 1] \notin TokenStarters
Unterminated(k) ==
    k < Len(code) /\ code[k + 1] = "\"" /\ \A j \in (k + 2)..Len(code) : code[j] # "\""

\* C11: scan raises ScannerError exactly when scanning reaches a character
\* that starts no token category or a string literal with no closing quote
\* before the end of the input; when it raises, no token list is returned.
C11_ScannerErrorExactlyOnBadInput ==
    /\ scanState = "error"
          => (StartsNoToken(i) \/ Unterminated(i)) /\ scanResult = <<>>
    /\ \A k \in 1..Len(tokens) :
          ~StartsNoToken(tokens[k].start) /\ ~Unterminated(tokens[k].start)

C11_Witness ==
    /\ scanState = "error"
    /\ Len(tokens) = 2
    /\ Unterminated(i)
    /\ scanResult = <<>>

(***************************************************************************)
(* parser.py: the expression ladder.  Every function takes the tokens      *)
(* that remain and returns a node together with the number of tokens it    *)
(* spans (the node's `length`), or raises.                                  *)
(***************************************************************************)
\* a token as the parser reads it: its type and its literal value
PToken(token_type, value) == [token_type |-> token_type, value |-> value]
NoToken == PToken("none", Nil)
EMPTY == PToken("EMPTY", Nil)          \* Token(Tok.EMPTY, "")

\* the sentinel the parser returns where no primary expression starts
Empty == [kind |-> "Empty"]
EmptyLength == 0

Parsed(node, length) ==
    [raised |-> "none", message |-> "", token |-> NoToken, node |-> node, length |-> length]
ParserError(token, message) ==
    [raised |-> "ParserError", message |-> message, token |-> token, node |-> None, length |-> 0]
IndexError ==
    [raised |-> "IndexError", message |-> "", token |-> NoToken, node |-> None, length |-> 0]

\* tokens[n:]
TokensFrom(toks, n) == SubSeq(toks, n + 1, Len(toks))

parser_get(toks, k) == IF k < Len(toks) THEN toks[k + 1] ELSE EMPTY

RECURSIVE next_expression(_)
RECURSIVE unary_expression(_)

grouping_expression(toks) ==
    LET expression == next_expression(TokensFrom(toks, 1)) IN
    IF expression.raised # "none" THEN expression
    ELSE IF expression.length + 1 >= Len(toks) THEN IndexError
    ELSE LET next_token == toks[expression.length + 2] IN
         IF next_token.token_type # "RIGHT_PAREN"
         THEN ParserError(next_token, "Expect ')' after expression.")
         ELSE Parsed(Grouping(expression.node), expression.length + 2)

\* Mutant: where no primary expression starts, the parser raises.
primary_expression_raising(toks) ==
    LET token == parser_get(toks, 0) IN
    CASE token.token_type \in {"NUMBER", "STRING", "NIL"} -> Parsed(Literal(token.value), 1)
      [] token.token_type = "TRUE" -> Parsed(Literal(Bool(TRUE)), 1)
      [] token.token_type = "FALSE" -> Parsed(Literal(Bool(FALSE)), 1)
      [] token.token_type = "LEFT_PAREN" -> grouping_expression(toks)
      [] OTHER -> ParserError(token, "Unexpected Token")

primary_expression(toks) ==
    LET token == parser_get(toks, 0) IN
    CASE token.token_type \in {"NUMBER", "STRING", "NIL"} -> Parsed(Literal(token.value), 1)
      [] token.token_type = "TRUE" -> Parsed(Literal(Bool(TRUE)), 1)
      [] token.token_type = "FALSE" -> Parsed(Literal(Bool(FALSE)), 1)
      [] token.token_type = "LEFT_PAREN" -> grouping_expression(toks)
      [] OTHER -> Parsed(Empty, EmptyLength)

unary_expression(toks) ==
    LET token == parser_get(toks, 0) IN
    IF token.token_type \in {"BANG", "MINUS"}
    THEN LET expression == unary_expression(TokensFrom(toks, 1)) IN
         IF expression.raised # "none" THEN expression
         ELSE Parsed(Unary(token.token_type, expression.node), expression.length + 1)
    ELSE primary_expression(toks)

\* The four binary levels are one body with two things changed: the
\* operators the level accepts, and the function it parses its operands with.
LevelOperators(level) ==
    CASE level = "equality" -> {"BANG_EQUAL", "EQUAL_EQUAL"}
      [] level = "comparison" -> {"GREATER", "GREATER_EQUAL", "LESS", "LESS_EQUAL"}
      [] level = "term" -> {"PLUS", "MINUS"}
      [] level = "factor" -> {"STAR", "SLASH"}

\* Mutant: the operands of a term are unaries, so `*` binds no tighter than `-`.
OperandLevel_term_of_unaries(level) ==
    CASE level = "equality" -> "comparison"
      [] level = "comparison" -> "term"
      [] level = "term" -> "unary"
      [] level = "factor" -> "unary"

OperandLevel(level) ==
    CASE level = "equality" -> "comparison"
      [] level = "comparison" -> "term"
      [] level = "term" -> "factor"
      [] level = "factor" -> "unary"

RECURSIVE binary_expression(_, _)
binary_expression(level, toks) ==
    IF level = "unary" THEN unary_expression(toks)
    ELSE LET left == binary_expression(OperandLevel(level), toks) IN
         IF left.raised # "none" THEN left
         ELSE LET token == parser_get(toks, left.length) IN
              IF token.token_type \notin LevelOperators(level) THEN left
              ELSE LET right == binary_expression(OperandLevel(level),
                                                  TokensFrom(toks, left.length + 1))
                   IN  IF right.raised # "none" THEN right
                       ELSE Parsed(Binary(left.node, token.token_type, right.node),
                                   left.length + 1 + right.length)

factor_expression(toks) == binary_expression("factor", toks)
term_expression(toks) == binary_expression("term", toks)
comparison_expression(toks) == binary_expression("comparison", toks)
equality_expession(toks) == binary_expression("equality", toks)

next_expression(toks) == equality_expession(toks)

(***************************************************************************)
(* The parser as a state machine: a token list is handed over, and         *)
(* next_expression is applied to it once.                                   *)
(***************************************************************************)
TokenAlphabet ==
    { PToken("NUMBER", Num(1)), PToken("NUMBER", Num(2)),
      PToken("MINUS", Nil), PToken("STAR", Nil), PToken("LESS", Nil),
      PToken("EQUAL_EQUAL", Nil), PToken("LEFT_PAREN", Nil), PToken("RIGHT_PAREN", Nil) }

TokenLists == UNION { [1..n -> TokenAlphabet] : n \in 0..MaxTokens }

ParseInit ==
    /\ ptokens \in TokenLists
    /\ forClauses = NoClauses
    /\ parseRes = NoParse
    /\ InterpIdle
    /\ ScanIdle
    /\ HeapIdle

NextExpression ==
    /\ parseRes = NoParse
    /\ parseRes' = next_expression(ptokens)
    /\ UNCHANGED <<ptokens, forClauses>>

ParseNext == NextExpression /\ UNCHANGED <<interpVars, scanVars, heapVars>>

ParseSpec == ParseInit /\ [][ParseNext]_vars


(***************************************************************************)
(* The for statement: the clauses are parsed, then the loop is rewritten   *)
(* as a while loop.                                                         *)
(***************************************************************************)
\* Mutant: an empty condition clause is left empty.
for_statement_no_default_condition(initialiser, condition, increment, body) ==
    LET body1 == IF increment # None
                 THEN BlockStmt(<<body, ExpressionStmt(increment)>>)
                 ELSE body
        body2 == WhileStmt(condition, body1)
    IN  IF initialiser # None THEN BlockStmt(<<initialiser, body2>>) ELSE body2

for_statement(initialiser, condition, increment, body) ==
    LET body1 == IF increment # None
                 THEN BlockStmt(<<body, ExpressionStmt(increment)>>)
                 ELSE body
        condition1 == IF condition = None THEN Literal(Bool(TRUE)) ELSE condition
        body2 == WhileStmt(condition1, body1)
    IN  IF initialiser # None THEN BlockStmt(<<initialiser, body2>>) ELSE body2

ForInitialisers ==
    { None, VarStmt("x", Literal(Num(1))), VarStmt("y", None),
      ExpressionStmt(Assign("x", Literal(Num(1)))) }
ForConditions ==
    { None, Literal(Bool(TRUE)), Variable("x"),
      Binary(Variable("x"), "LESS", Literal(Num(2))) }
ForIncrements ==
    { None, Assign("x", Binary(Variable("x"), "MINUS", Literal(Num(1)))),
      Assign("y", Literal(Num(2))) }
ForBodies ==
    { PrintStmt(Variable("x")), BlockStmt(<<PrintStmt(Variable("x"))>>),
      ExpressionStmt(Assign("y", Variable("x"))) }

ForInit == ParseIdle /\ InterpIdle /\ ScanIdle /\ HeapIdle

ForStatement(initialiser, condition, increment, body) ==
    /\ forClauses' = [initialiser |-> initialiser, condition |-> condition,
                      increment |-> increment, body |-> body]
    /\ parseRes' = Parsed(for_statement(initialiser, condition, increment, body), 0)
    /\ UNCHANGED ptokens

ForNext ==
    \E initialiser \in ForInitialisers, condition \in ForConditions,
       increment \in ForIncrements, body \in ForBodies :
        ForStatement(initialiser, condition, increment, body)
            /\ UNCHANGED <<interpVars, scanVars, heapVars>>

ForSpec == ForInit /\ [][ForNext]_vars

ParsedFor == forClauses # NoClauses
\* the statement the initialiser, when given, is put in front of
AfterInitialiser ==
    IF forClauses.initialiser # None THEN parseRes.node.statements[2] ELSE parseRes.node

Level(token_type) ==
    CASE token_type \in {"BANG_EQUAL", "EQUAL_EQUAL"} -> 1
      [] token_type \in {"GREATER", "GREATER_EQUAL", "LESS", "LESS_EQUAL"} -> 2
      [] token_type \in {"PLUS", "MINUS"} -> 3
      [] token_type \in {"STAR", "SLASH"} -> 4
      [] OTHER -> 0

ParsedTokens == parseRes # NoParse
IsOperand(k) == k <= Len(ptokens) /\ ptokens[k].token_type = "NUMBER"
IsOperator(k) == k <= Len(ptokens) /\ Level(ptokens[k].token_type) > 0
Operand(k) == Literal(ptokens[k].value)

\* `a op1 b op2 c` with op1 and op2 of two different precedence levels
C12Case ==
    /\ ParsedTokens
    /\ Len(ptokens) = 5
    /\ IsOperand(1) /\ IsOperator(2) /\ IsOperand(3) /\ IsOperator(4) /\ IsOperand(5)
    /\ Level(ptokens[2].token_type) # Level(ptokens[4].token_type)

\* C12: for primaries a, b, c and two operators of two different precedence
\* levels, the operator of the higher level is grouped first wherever it
\* stands: `a - b * c` parses to Binary(-, a, Binary(*, b, c)) and
\* `a * b - c` to Binary(-, Binary(*, a, b), c); all five tokens are consumed.
C12_HigherPrecedenceGroupsFirst ==
    C12Case =>
        /\ parseRes.raised = "none"
        /\ parseRes.length = 5
        /\ parseRes.node =
              IF Level(ptokens[2].token_type) < Level(ptokens[4].token_type)
              THEN Binary(Operand(1), ptokens[2].token_type,
                          Binary(Operand(3), ptokens[4].token_type, Operand(5)))
              ELSE Binary(Binary(Operand(1), ptokens[2].token_type, Operand(3)),
                          ptokens[4].token_type, Operand(5))

C12_Witness ==
    /\ C12Case
    /\ ptokens[2].token_type = "STAR"
    /\ ptokens[4].token_type = "MINUS"
    /\ parseRes.node.kind = "Binary"
    /\ parseRes.node.operator = "MINUS"
    /\ parseRes.node.left.kind = "Binary"
    /\ parseRes.length = 5

\* operands joined by operators of one precedence level: `a1 op a2 op ... an`
C13Case ==
    /\ ParsedTokens
    /\ Len(ptokens) \in {3, 5, 7}
    /\ \A k \in 1..Len(ptokens) : IF k % 2 = 1 THEN IsOperand(k) ELSE IsOperator(k)
    /\ \A k \in 1..Len(ptokens) :
          k % 2 = 0 => Level(ptokens[k].token_type) = Level(ptokens[2].token_type)

RECURSIVE RightChain(_)
RightChain(k) ==
    IF k >= Len(ptokens) THEN Operand(k)
    ELSE Binary(Operand(k), ptokens[k + 1].token_type, RightChain(k + 2))

\* C13: n operands joined by n-1 operators of one precedence level parse to
\* a right-leaning chain of n-1 Binary nodes that spans all 2n-1 tokens.
C13_ChainConsumesAllTokens ==
    C13Case =>
        /\ parseRes.raised = "none"
        /\ parseRes.length = Len(ptokens)
        /\ parseRes.node = RightChain(1)

\* `( expr` where expr parses and no `)` follows it
InnerExpression == next_expression(TokensFrom(ptokens, 1))
AfterInner == InnerExpression.length + 2
C14Case ==
    /\ ParsedTokens
    /\ Len(ptokens) >= 1
    /\ ptokens[1].token_type = "LEFT_PAREN"
    /\ InnerExpression.raised = "none"
    /\ InnerExpression.length >= 1
    /\ AfterInner <= Len(ptokens) => ptokens[AfterInner].token_type # "RIGHT_PAREN"

\* C14: a grouped expression `( expr` that is not followed by `)` raises
\* ParserError, carrying the token that stands where `)` is required when
\* there is one, and no other kind of failure, also when the tokens end there.
C14_MissingParenRaisesParserError ==
    C14Case =>
        /\ parseRes.raised = "ParserError"
        /\ AfterInner <= Len(ptokens) => parseRes.token = ptokens[AfterInner]

(***************************************************************************)
(* The evaluator on operator expressions: `evaluate` is called once on an  *)
(* expression over literal operands of every type.                          *)
(***************************************************************************)
OperandValues ==
    { Nil, Bool(TRUE), Bool(FALSE), Num(0), Num(1), Num(2), Str(<<>>), Str(<<"a">>) }

BinaryExpressions ==
    { Binary(Literal(a), op, Literal(b)) :
        a \in OperandValues, op \in BINARY_NUMERIC_OPERATIONS \cup {"PLUS"},
        b \in OperandValues }
UnaryExpressions == { Unary(op, Literal(a)) : op \in {"BANG", "MINUS"}, a \in OperandValues }

LogicalLefts ==
    { Literal(a) : a \in OperandValues } \cup { Assign("x", Literal(a)) : a \in {Nil, Num(1)} }
LogicalRights ==
    { Literal(Num(2)), Variable("y"), Assign("y", Literal(Num(2))),
      Binary(Literal(Num(1)), "SLASH", Literal(Num(0))) }
LogicalExpressions ==
    { Logical(l, op, r) : l \in LogicalLefts, op \in {"OR", "AND"}, r \in LogicalRights }

\* `(x = v) or right`: assigns x, then yields right
AssignThen(v, right) == Logical(Assign("x", Literal(Num(v))), "OR", right)
Callees ==
    { Literal(Callable(n)) : n \in 0..2 }
        \cup { Literal(Num(1)), Variable("y"), AssignThen(2, Literal(Callable(1))) }
ArgumentExpressions == { Literal(Num(1)), Variable("x"), AssignThen(1, Variable("x")) }
ArgumentLists ==
    {<<>>} \cup { <<a>> : a \in ArgumentExpressions }
        \cup { <<a, b>> : a \in ArgumentExpressions, b \in ArgumentExpressions }
CallExpressions == { Call(c, a) : c \in Callees, a \in ArgumentLists }

\* `a == b` and `a != b` over operands of every type
EqualityExpressions ==
    { Binary(Literal(a), op, Literal(b)) :
        a \in OperandValues, op \in {"BANG_EQUAL", "EQUAL_EQUAL"}, b \in OperandValues }

\* `a = b = v`
ChainedAssignments ==
    { Assign(a, Assign(b, Literal(v))) : a \in Names, b \in Names, v \in {Num(1), Num(2)} }

OperatorExpressions ==
    BinaryExpressions \cup UnaryExpressions \cup LogicalExpressions \cup {Empty}
        \cup CallExpressions \cup EqualityExpressions \cup ChainedAssignments

EvalInit == Init /\ Len(env) = 1

EvalNext ==
    \E e \in OperatorExpressions :
        lastOp = NoOp /\ Evaluate(e) /\ UNCHANGED <<scanVars, parseVars, heapVars>>

EvalSpec == EvalInit /\ [][EvalNext]_vars

Truthy(value) == value # Nil /\ value # Bool(FALSE)

RanLogical == Ran("evaluate") /\ lastOp.arg.kind = "Logical"
LeftResult == evaluate(lastOp.arg.left, prevEnv)
ShortCircuits ==
    \/ lastOp.arg.operator = "OR" /\ Truthy(LeftResult.value)
    \/ lastOp.arg.operator = "AND" /\ ~Truthy(LeftResult.value)

\* C16: an `or` whose left value is truthy, and an `and` whose left value is
\* falsy, return the left operand's own value and the environment the left
\* operand produced, and raise nothing the right operand would raise; in the
\* other cases the result is the right operand's, evaluated in the left
\* operand's environment.
C16_LogicalShortCircuits ==
    RanLogical /\ LeftResult.raised = "none" =>
        IF ShortCircuits
        THEN /\ lastRes.raised = "none"
             /\ lastRes.value = LeftResult.value
             /\ lastRes.env = LeftResult.env
        ELSE lastRes = evaluate(lastOp.arg.right, LeftResult.env)

C16_Witness ==
    /\ RanLogical
    /\ lastOp.arg.operator = "AND"
    /\ lastOp.arg.left = Assign("x", Literal(Num(1)))
    /\ prevEnv[1]["x"] = Num(0)
    /\ lastRes.raised = "none"
    /\ lastRes.value = Nil
    /\ lastRes.env[1]["x"] = Num(1)
    /\ evaluate(lastOp.arg.right, lastRes.env).raised = "RuntimeError"

RanBinary == Ran("evaluate") /\ lastOp.arg \in BinaryExpressions
LeftOperand == lastOp.arg.left.value
RightOperand == lastOp.arg.right.value
BothNumbers == LeftOperand.t = "num" /\ RightOperand.t = "num"
BothStrings == LeftOperand.t = "str" /\ RightOperand.t = "str"

\* r is the arithmetic or comparison result of `a operator b`; a quotient
\* is the number that gives a back when multiplied by b
IsNumericResult(r, a, operator, b) ==
    CASE operator = "MINUS" -> r = Num(a - b)
      [] operator = "STAR" -> r = Num(a * b)
      [] operator = "SLASH" ->
            /\ r.t = "num"
            /\ IF "over" \in DOMAIN r THEN r.v * b = a * r.over ELSE r.v * b = a
      [] operator = "GREATER" -> r = Bool(a > b)
      [] operator = "GREATER_EQUAL" -> r = Bool(a >= b)
      [] operator = "LESS" -> r = Bool(a < b)
      [] operator = "LESS_EQUAL" -> r = Bool(a <= b)

\* C17: - / * > >= < <= raise "Operands must be numbers." when an operand is
\* not a number and otherwise return the arithmetic or comparison result;
\* + adds two numbers, concatenates two strings, and raises "Operands must
\* be two numbers or two strings" for every other pair of operand types.
C17_BinaryOperandTypes ==
    RanBinary =>
        IF lastOp.arg.operator = "PLUS"
        THEN IF BothNumbers
             THEN lastRes.raised = "none"
                  /\ lastRes.value = Num(LeftOperand.v + RightOperand.v)
             ELSE IF BothStrings
             THEN lastRes.raised = "none"
                  /\ lastRes.value = Str(LeftOperand.v \o RightOperand.v)
             ELSE lastRes.raised = "RuntimeError"
                  /\ lastRes.message = "Operands must be two numbers or two strings"
        ELSE IF BothNumbers
             THEN lastRes.raised = "none"
                  /\ IsNumericResult(lastRes.value, LeftOperand.v,
                                     lastOp.arg.operator, RightOperand.v)
             ELSE lastRes.raised = "RuntimeError"
                  /\ lastRes.message = "Operands must be numbers."

RanList == Ran("interpret") /\ Len(lastOp.arg) = 3
\* the statements 1..k of the list, run one after the other from prevEnv
RECURSIVE RunUpTo(_)
RunUpTo(k) ==
    IF k = 0 THEN Completed(prevEnv, <<>>)
    ELSE LET r == RunUpTo(k - 1)
         IN  IF r.raised # "none" THEN r ELSE interpret_statement(lastOp.arg[k], r.env, r.out)
\* statement k is the first one that raises
RaisesAt(k) == RunUpTo(k - 1).raised = "none" /\ RunUpTo(k).raised # "none"

\* C18: when statement k of a statement list raises, the output is exactly
\* what the statements before k printed, in order, the error of statement k
\* reaches the caller, and no environment is returned: the caller's
\* environment holds no binding made by the list.
C18_ErrorAbortsRemainingStatements ==
    RanList =>
        \A k \in 1..Len(lastOp.arg) :
            RaisesAt(k) =>
                /\ out = RunUpTo(k - 1).out
                /\ lastRes.raised = "RuntimeError"
                /\ lastRes.message = RunUpTo(k).message
                /\ lastRes.env = <<>>
                /\ env = prevEnv

C18_Witness ==
    /\ RanList
    /\ RaisesAt(2)
    /\ lastOp.arg[1] = PrintStmt(Literal(Num(1)))
    /\ lastOp.arg[3] = PrintStmt(Literal(Num(1)))
    /\ out = <<"1.0">>
    /\ lastRes.raised = "RuntimeError"
    /\ lastRes.env = <<>>

\* C19: whatever escapes evaluate is the interpreter's RuntimeError, for
\* every expression and every operand value, a zero divisor and the empty
\* expression included.
C19_OnlyRuntimeErrorEscapes ==
    Ran("evaluate") => lastRes.raised \in {"none", "RuntimeError"}

RanBang ==
    Ran("evaluate") /\ lastOp.arg.kind = "Unary" /\ lastOp.arg.operator = "BANG"

\* C20: is_truthy is false for nil, the value itself for a boolean and true
\* for every other value, 0 and the empty string included; `!` returns the
\* negation of the truthiness of its operand.
C20_TruthinessAndBang ==
    /\ ~is_truthy(Nil)
    /\ is_truthy(Bool(TRUE)) /\ ~is_truthy(Bool(FALSE))
    /\ \A value \in OperandValues \ {Nil, Bool(TRUE), Bool(FALSE)} : is_truthy(value)
    /\ RanBang =>
          /\ lastRes.raised = "none"
          /\ lastRes.value = Bool(~Truthy(lastOp.arg.right.value))
          /\ lastRes.env = prevEnv

C20_Witness ==
    /\ RanBang
    /\ lastOp.arg.right.value \in {Num(0), Str(<<>>)}
    /\ lastRes.value = Bool(FALSE)

(***************************************************************************)
(* environment.py by reference.  An Environment object holds a reference   *)
(* to its `values` dict, to its enclosing Environment (0 for None) and to  *)
(* its `globals`; a heap is the objects and the dicts created so far.      *)
(***************************************************************************)
HeapReturned(h, ref) == [raised |-> FALSE, h |-> h, ref |-> ref]
HeapRaised(h) == [raised |-> TRUE, h |-> h, ref |-> 0]

\* Environment(values=the dict at `values`, enclosing, globals): __init__
Heap_Environment(h, values, enclosing, globals) ==
    LET self == Len(h.objs) + 1
        object == [values |-> values, enclosing |-> enclosing,
                   globals |-> IF globals = 0 THEN self ELSE globals]
    IN  HeapReturned([objs |-> Append(h.objs, object), dicts |-> h.dicts], self)

\* Mutant: the key is set in the receiver's own dict, which the copy shares.
Heap_get_copy_with_in_place(h, self, key, value) ==
    LET values == h.objs[self].values
        written == [h.dicts EXCEPT ![values][key] = value]
    IN  Heap_Environment([objs |-> h.objs, dicts |-> written], values,
                         h.objs[self].enclosing, h.objs[self].globals)

Heap_get_copy_with(h, self, key, value) ==
    LET output_values == [h.dicts[h.objs[self].values] EXCEPT ![key] = value]
        copied == Append(h.dicts, output_values)
    IN  Heap_Environment([objs |-> h.objs, dicts |-> copied], Len(copied),
                         h.objs[self].enclosing, h.objs[self].globals)

Heap_define(h, self, name, value) == Heap_get_copy_with(h, self, name, value)

RECURSIVE Heap_assign(_, _, _, _)
Heap_assign(h, self, name, value) ==
    IF h.dicts[h.objs[self].values][name] # Absent
    THEN Heap_get_copy_with(h, self, name, value)
    ELSE IF h.objs[self].enclosing # 0
         THEN LET r == Heap_assign(h, h.objs[self].enclosing, name, value)
              IN  IF r.raised THEN r
                  ELSE Heap_Environment(r.h, h.objs[self].values, r.ref, 0)
         ELSE HeapRaised(h)

\* Environment(enclosing=self), as interpret_block_statement enters a block
Heap_enter(h, self) ==
    Heap_Environment([objs |-> h.objs, dicts |-> Append(h.dicts, EmptyFrame)],
                     Len(h.dicts) + 1, self, 0)

(***************************************************************************)
(* The heap as a state machine: from a root Environment(), the caller      *)
(* defines, assigns, enters a block or leaves it, each time on the          *)
(* environment it holds.                                                     *)
(***************************************************************************)
HeapValues == {Num(1), Num(2)}
Heap == [objs |-> objs, dicts |-> dicts]

HeapInit ==
    /\ objs = <<[values |-> 1, enclosing |-> 0, globals |-> 1]>>
    /\ dicts = <<EmptyFrame>>
    /\ cur = 1
    /\ heapOp = NoHeapOp
    /\ InterpIdle
    /\ ScanIdle
    /\ ParseIdle

\* the caller keeps the environment it held when the method raises
HeapCall(op, name, value, r) ==
    /\ Len(r.h.objs) <= MaxObjects
    /\ objs' = r.h.objs
    /\ dicts' = r.h.dicts
    /\ cur' = IF r.raised THEN cur ELSE r.ref
    /\ heapOp' = [op |-> op, self |-> cur, name |-> name, value |-> value,
                  raised |-> r.raised, ref |-> r.ref]

HeapDefine(name, value) == HeapCall("define", name, value, Heap_define(Heap, cur, name, value))
HeapAssign(name, value) == HeapCall("assign", name, value, Heap_assign(Heap, cur, name, value))
HeapEnter == HeapCall("enter", "", Nil, Heap_enter(Heap, cur))
HeapExit ==
    /\ objs[cur].enclosing # 0
    /\ cur' = objs[cur].enclosing
    /\ heapOp' = [op |-> "exit", self |-> cur, name |-> "", value |-> Nil,
                  raised |-> FALSE, ref |-> objs[cur].enclosing]
    /\ UNCHANGED <<objs, dicts>>

HeapNext ==
    \/ \E name \in Names, value \in HeapValues :
          HeapDefine(name, value) /\ UNCHANGED <<interpVars, scanVars, parseVars>>
    \/ \E name \in Names, value \in HeapValues :
          HeapAssign(name, value) /\ UNCHANGED <<interpVars, scanVars, parseVars>>
    \/ HeapEnter /\ UNCHANGED <<interpVars, scanVars, parseVars>>
    \/ HeapExit /\ UNCHANGED <<interpVars, scanVars, parseVars>>

HeapSpec == HeapInit /\ [][HeapNext]_vars

\* the names and values of the frames from ref outward, as os and ds hold them
RECURSIVE FramesFrom(_, _, _)
FramesFrom(os, ds, ref) ==
    IF ref = 0 THEN <<>>
    ELSE <<ds[os[ref].values]>> \o FramesFrom(os, ds, os[ref].enclosing)

\* the value name resolves to from ref outward, Absent when no frame binds it
RECURSIVE ResolveIn(_, _, _, _)
ResolveIn(os, ds, ref, name) ==
    IF ref = 0 THEN Absent
    ELSE IF ds[os[ref].values][name] # Absent THEN ds[os[ref].values][name]
    ELSE ResolveIn(os, ds, os[ref].enclosing, name)
Resolve(ref, name) == ResolveIn(objs, dicts, ref, name)

\* C21: define and assign never mutate: whether the call returns or raises,
\* every frame that existed before it, the receiver's and its enclosing
\* chain's included, holds the names and values it held; when the call
\* returns, the new binding is what the returned environment resolves.
C21_DefineAssignNeverMutate ==
    [][heapOp'.op \in {"define", "assign"} =>
          /\ \A ref \in 1..Len(objs) :
                FramesFrom(objs', dicts', ref) = FramesFrom(objs, dicts, ref)
          /\ ~heapOp'.raised =>
                ResolveIn(objs', dicts', cur', heapOp'.name) = heapOp'.value]_vars

C21_Witness ==
    /\ heapOp.op = "assign"
    /\ ~heapOp.raised
    /\ objs[heapOp.self].enclosing # 0
    /\ dicts[objs[heapOp.self].values][heapOp.name] = Absent
    /\ Resolve(heapOp.self, heapOp.name) = Num(1)
    /\ Resolve(cur, heapOp.name) = Num(2)

\* the outermost frame of the enclosing chain of ref
RECURSIVE Outermost(_)
Outermost(ref) == IF objs[ref].enclosing = 0 THEN ref ELSE Outermost(objs[ref].enclosing)

\* C30: in every Environment reached from the root by define, assign and
\* block entry, `globals` refers to the outermost frame of its enclosing chain.
C30_GlobalsIsOutermostFrame ==
    \A ref \in 1..Len(objs) : objs[ref].globals = Outermost(ref)

RanWhile == Ran("interpret") /\ Len(lastOp.arg) = 1 /\ lastOp.arg[1].kind = "While"
\* `while (x < n) ...` was run with x bound, innermost, to a number
C22Case ==
    /\ RanWhile
    /\ Binds(prevEnv, "x")
    /\ prevEnv[Innermost(prevEnv, "x")]["x"].t = "num"
LoopFrom == prevEnv[Innermost(prevEnv, "x")]["x"].v
LoopTo == lastOp.arg[1].condition.right.value.v
Turns == IF LoopTo > LoopFrom THEN LoopTo - LoopFrom ELSE 0

\* C22: `while (x < n) body`, where body adds 1 to x, runs the body once
\* for every time the condition is truthy, each time in the environment the
\* previous turn returned: the body runs n - x times (never when x >= n),
\* a printing body prints x, x + 1, ..., n - 1, and the environment returned
\* is the one given with x bound to n (to x itself when x >= n).
C22_WhileThreadsEnvironment ==
    C22Case =>
        /\ lastRes.raised = "none"
        /\ env = [prevEnv EXCEPT ![Innermost(prevEnv, "x")]["x"] = Num(LoopFrom + Turns)]
        /\ lastRes.env = env
        /\ IF lastOp.arg[1].body.kind = "Block"
           THEN out = [k \in 1..Turns |-> stringify(Num(LoopFrom + k - 1))]
           ELSE out = <<>>

C22_Witness ==
    /\ C22Case
    /\ lastOp.arg[1].body.kind = "Block"
    /\ LoopFrom = 0
    /\ LoopTo = 2
    /\ out = <<"0.0", "1.0">>
    /\ Len(env) = 2
    /\ Innermost(prevEnv, "x") = 2
    /\ env[2]["x"] = Num(2)

RanCall == Ran("evaluate") /\ lastOp.arg.kind = "Call"
CalleeResult == evaluate(lastOp.arg.callee, prevEnv)
\* the arguments 1..k evaluated one after the other, the first in the
\* environment the callee returned
RECURSIVE ArgumentsUpTo(_)
ArgumentsUpTo(k) ==
    IF k = 0 THEN [raised |-> "none", values |-> <<>>, env |-> CalleeResult.env]
    ELSE LET before == ArgumentsUpTo(k - 1)
         IN  IF before.raised # "none" THEN before
             ELSE LET a == evaluate(lastOp.arg.arguments[k], before.env)
                  IN  [raised |-> a.raised, values |-> Append(before.values, a.value),
                       env |-> a.env]
AllArguments == ArgumentsUpTo(Len(lastOp.arg.arguments))

\* C23: a call evaluates the callee, then the arguments left to right, each
\* in the environment the evaluation before it returned; a callee that is
\* not callable and an argument count other than the arity raise a runtime
\* error; otherwise the callable is invoked with the argument values in
\* order and the environment after the last argument.
C23_CallEvaluatesInOrder ==
    RanCall /\ CalleeResult.raised = "none" =>
        IF CalleeResult.value.t # "callable"
           \/ Len(lastOp.arg.arguments) # CalleeResult.value.v
        THEN lastRes.raised = "RuntimeError" /\ lastRes.env = <<>>
        ELSE IF AllArguments.raised # "none"
        THEN lastRes.raised = AllArguments.raised
        ELSE /\ lastRes.raised = "none"
             /\ lastRes.value = List(AllArguments.values)
             /\ lastRes.env = AllArguments.env

C23_Witness ==
    /\ RanCall
    /\ lastOp.arg.callee = AssignThen(2, Literal(Callable(1)))
    /\ lastOp.arg.arguments = <<Variable("x")>>
    /\ prevEnv[1]["x"] = Num(0)
    /\ lastRes.raised = "none"
    /\ lastRes.value = List(<<Num(2)>>)
    /\ lastRes.env[1]["x"] = Num(2)

\* the expression holds no Assign node and no Call node
RECURSIVE IsPure(_)
IsPure(expression) ==
    CASE expression.kind \in {"Literal", "Variable"} -> TRUE
      [] expression.kind = "Grouping" -> IsPure(expression.expression)
      [] expression.kind = "Unary" -> IsPure(expression.right)
      [] expression.kind \in {"Binary", "Logical"} ->
            IsPure(expression.left) /\ IsPure(expression.right)
      [] OTHER -> FALSE

\* C24: an expression with no Assign and no Call node that evaluates
\* without error returns the environment it was given, frame for frame.
C24_PureExpressionKeepsEnvironment ==
    Ran("evaluate") /\ IsPure(lastOp.arg) /\ lastRes.raised = "none" =>
        /\ lastRes.env = prevEnv
        /\ env = prevEnv

C24_Witness ==
    /\ Ran("evaluate")
    /\ lastOp.arg = Binary(Variable("x"), "PLUS", Grouping(Unary("MINUS", Variable("y"))))
    /\ Len(prevEnv) = 2
    /\ prevEnv[1]["x"] = Absent
    /\ lastRes.raised = "none"
    /\ lastRes.env = prevEnv

\* the token types a primary expression starts with
PrimaryStarts == {"NUMBER", "STRING", "NIL", "TRUE", "FALSE", "LEFT_PAREN"}
StartsPrimary(k) == k <= Len(ptokens) /\ ptokens[k].token_type \in PrimaryStarts

\* `a op` followed by the end of the tokens or by a token that starts no
\* primary expression
C25Case_NoPrimaryFollows ==
    /\ ParsedTokens
    /\ IsOperand(1) /\ IsOperator(2)
    /\ ~StartsPrimary(3)

C25Case ==
    /\ ParsedTokens
    /\ IsOperand(1) /\ IsOperator(2)
    /\ Len(ptokens) >= 3 => ptokens[3].token_type = "RIGHT_PAREN"

\* `a op -` and nothing after
C25UnaryCase ==
    /\ ParsedTokens
    /\ Len(ptokens) = 3
    /\ IsOperand(1) /\ IsOperator(2)
    /\ ptokens[3].token_type \in {"BANG", "MINUS"}

\* the number of tokens a node spans
RECURSIVE NodeLength(_)
NodeLength(node) ==
    CASE node.kind = "Literal" -> 1
      [] node.kind = "Empty" -> EmptyLength
      [] node.kind = "Unary" -> 1 + NodeLength(node.right)
      [] node.kind = "Grouping" -> NodeLength(node.expression) + 2
      [] node.kind = "Binary" -> NodeLength(node.left) + 1 + NodeLength(node.right)

\* every sentinel of the tree that starts at `offset` stands where the
\* tokens have ended or where the token starts no primary expression
RECURSIVE SentinelsWhereMissing(_, _)
SentinelsWhereMissing(node, offset) ==
    CASE node.kind = "Literal" -> TRUE
      [] node.kind = "Empty" ->
            parser_get(ptokens, offset).token_type \notin PrimaryStarts
      [] node.kind = "Unary" -> SentinelsWhereMissing(node.right, offset + 1)
      [] node.kind = "Grouping" -> SentinelsWhereMissing(node.expression, offset + 1)
      [] node.kind = "Binary" ->
            /\ SentinelsWhereMissing(node.left, offset)
            /\ SentinelsWhereMissing(node.right, offset + NodeLength(node.left) + 1)

C26Case ==
    /\ Ran("evaluate")
    /\ lastOp.arg \in ChainedAssignments
    /\ Environment_get(prevEnv, lastOp.arg.name).raised = "none"
    /\ Environment_get(prevEnv, lastOp.arg.value.name).raised = "none"

\* C26: an assignment expression evaluates to the value it assigned: for a
\* and b both defined, evaluating Assign(a, Assign(b, Literal v)) returns an
\* environment in which both a and b are bound to v.
C26_ChainedAssignmentBindsBoth ==
    C26Case =>
        /\ lastRes.raised = "none"
        /\ Head(lastRes.env)[lastOp.arg.value.name] = lastOp.arg.value.value.value
        /\ Head(lastRes.env)[lastOp.arg.name] = lastOp.arg.value.value.value

\* the Lox type of a value
LoxType(value) == value.t

RanEquality == Ran("evaluate") /\ lastOp.arg \in EqualityExpressions

\* C27: `==` is false and `!=` is true whenever the two operands are of
\* different Lox types (a boolean never equals a number, nil equals only
\* nil), and `a != b` is the negation of `a == b`.
C27_EqualityDistinguishesTypes ==
    RanEquality =>
        LET a == lastOp.arg.left.value
            b == lastOp.arg.right.value
            equal == (lastOp.arg.operator = "EQUAL_EQUAL")
        IN  /\ lastRes.raised = "none"
            /\ lastRes.value.t = "bool"
            /\ LoxType(a) # LoxType(b) => lastRes.value = Bool(~equal)
            /\ lastRes.value =
                  Bool(equal <=> evaluate(Binary(Literal(a), "EQUAL_EQUAL", Literal(b)),
                                          prevEnv).value = Bool(TRUE))

\* the sum of the lengths of the tokens ts
RECURSIVE SumLengths(_)
SumLengths(ts) == IF ts = <<>> THEN 0 ELSE Head(ts).length + SumLengths(Tail(ts))

\* C28: the tokens generate_tokens has yielded tile the source: the first
\* starts at offset 0, every token is at least one character long, each next
\* token starts where the one before it ends, the cursor stands at the end
\* of the last one, and when the scan finishes without error the lengths sum
\* to the length of the source; the starts of the tokens scan returns are
\* strictly increasing.
C28_TokensTileSource ==
    /\ tokens # <<>> => tokens[1].start = 0
    /\ \A k \in 1..Len(tokens) : tokens[k].length >= 1
    /\ \A k \in 1..(Len(tokens) - 1) :
          tokens[k + 1].start = tokens[k].start + tokens[k].length
    /\ scanState # "idle" => i = SumLengths(tokens)
    /\ scanState = "done" => SumLengths(tokens) = Len(code)
    /\ \A j, k \in 1..Len(scanResult) :
          j < k => scanResult[j].start < scanResult[k].start

C28_Witness ==
    /\ scanState = "done"
    /\ Len(tokens) = 3
    /\ tokens[1].token_type = "NUMBER"
    /\ tokens[2].token_type = "WHITESPACE"
    /\ tokens[3].token_type = "COMMENT"
    /\ tokens[3].start = 2
    /\ tokens[3].length = 2
    /\ Len(scanResult) = 1

\* C29: statements that complete without error return an environment with
\* as many frames as the one they were given, blocks nested in blocks and
\* assignments to names of outer frames included, and the assertion of
\* interpret_block_statement never fails.
C29_StatementsKeepFrameCount ==
    Ran("interpret") =>
        /\ lastRes.raised # "AssertionError"
        /\ lastRes.raised = "none" =>
              Len(lastRes.env) = Len(prevEnv) /\ Len(env) = Len(prevEnv)

C29_Witness ==
    /\ Ran("interpret")
    /\ lastOp.arg =
          <<BlockStmt(<<VarStmt("y", None),
                        BlockStmt(<<ExpressionStmt(Assign("x", Literal(Num(2))))>>)>>)>>
    /\ Len(prevEnv) = 2
    /\ prevEnv[1]["x"] = Absent
    /\ prevEnv[2]["x"] = Num(0)
    /\ lastRes.raised = "none"
    /\ Len(lastRes.env) = 2
    /\ lastRes.env[2]["x"] = Num(2)

====
